---- MODULE Spec2Model ----
(***************************************************************************)
(* A model of app.py of the AI Resume Analyzer:                            *)
(*   - extract_text_from_pdf: the two-stage text extraction (pdfplumber    *)
(*     text layer, then the pdf2image / pytesseract fallback);             *)
(*   - analyze_resume: the prompt it builds and the parsing of the reply;  *)
(*   - the Streamlit script body that writes every upload to the one path  *)
(*     uploaded_resume.pdf before extracting from it.                      *)
(* Text is a sequence of characters, each a one-character string.  The     *)
(* libraries (pdfplumber, pdf2image, pytesseract, the Gemini client) are   *)
(* the environment: what they return or raise is an input.                 *)
(***************************************************************************)
EXTENDS Integers, Sequences, FiniteSets, TLC

\* ------------------------------------------------------------------ bounds
MaxPages == 2
MaxImages == 2

\* ----------------------------------------------------------- Python values
\* An Optional[str]: None, or a string.
PyNone == [none |-> TRUE, str |-> <<>>]
PyStr(s) == [none |-> FALSE, str |-> s]

\* Python truthiness of an Optional[str]: None and "" are falsy.
Truthy(v) == ~v.none /\ v.str # <<>>

Whitespace == {" "}

RECURSIVE LStrip(_)
LStrip(s) == IF s # <<>> /\ Head(s) \in Whitespace THEN LStrip(Tail(s)) ELSE s

RECURSIVE RStrip(_)
RStrip(s) ==
    IF s # <<>> /\ s[Len(s)] \in Whitespace THEN RStrip(SubSeq(s, 1, Len(s) - 1)) ELSE s

\* str.strip()
Strip(s) == RStrip(LStrip(s))

\* The exceptions a library call may raise: an Exception, or a BaseException
\* that is no Exception.
ExcKinds == {"Exception", "KeyboardInterrupt"}

\* ------------------------------------------------------------------- state
VARIABLES
    \* extract_text_from_pdf
    pdf_file,    \* what the libraries do with the file at pdf_path
    xpc,         \* position in extract_text_from_pdf
    text,        \* its local "text"
    pageIx,      \* index of the next page of pdf.pages
    imgIx,       \* index of the next image of images
    ocrCalled,   \* whether convert_from_path or image_to_string was called
    ret,         \* the value returned
    \* analyze_resume
    apc, resume_text, job_description, prompt, reply, parts, result, outcome,
    \* the script body, one run per session
    spc, upload, disk, session_text, analyzed

extractVars == <<pdf_file, xpc, text, pageIx, imgIx, ocrCalled, ret>>
analyzeVars == <<apc, resume_text, job_description, prompt, reply, parts, result, outcome>>
scriptVars == <<spc, upload, disk, session_text, analyzed>>
vars == <<extractVars, analyzeVars, scriptVars>>

\* ------------------------------------------------- extract_text_from_pdf
\* What page.extract_text() returns for a page.
PageValues == {PyNone, PyStr(<<>>), PyStr(<<" ">>), PyStr(<<"a">>)}
\* What pytesseract.image_to_string returns for an image.
OcrValues == {<<" ">>, <<"x">>, <<"y">>}

SeqsUpTo(S, n) == UNION {[1..k -> S] : k \in 0..n}

\* A stage's failure: none, or an exception of some kind raised at step "at".
\* Text layer: 0 is pdfplumber.open, i in 1..n is extract_text of page i, n+1 is
\* the exit of the with block.  OCR: 0 is convert_from_path, j is
\* image_to_string of image j.
NoFailure == [fails |-> FALSE, at |-> 0, kind |-> "Exception"]
Failures(last) == {NoFailure} \cup [fails : {TRUE}, at : 0..last, kind : ExcKinds]

PdfFiles ==
    UNION { UNION { [pages : {ps}, tlFail : Failures(Len(ps) + 1),
                     images : {is}, ocrFail : Failures(Len(is))]
                    : is \in SeqsUpTo(OcrValues, MaxImages) }
            : ps \in SeqsUpTo(PageValues, MaxPages) }

EmptyPdf == [pages |-> <<>>, tlFail |-> NoFailure, images |-> <<>>, ocrFail |-> NoFailure]

RaisesAt(f, step) == f.fails /\ f.at = step

\* The bare "except:" of both stages catches every exception.
CatchesOnlyException(kind) == kind = "Exception"
ExceptCatches(kind) == TRUE

InitExtractVars ==
    /\ xpc = "open"
    /\ text = <<>>
    /\ pageIx = 1
    /\ imgIx = 1
    /\ ocrCalled = FALSE
    /\ ret = <<>>

\* with pdfplumber.open(pdf_path) as pdf:
TextOpen ==
    /\ xpc = "open"
    /\ IF RaisesAt(pdf_file.tlFail, 0)
       THEN xpc' = IF ExceptCatches(pdf_file.tlFail.kind) THEN "convert" ELSE "raised"
       ELSE xpc' = "pages"
    /\ UNCHANGED <<pdf_file, text, pageIx, imgIx, ocrCalled, ret>>
    /\ UNCHANGED <<analyzeVars, scriptVars>>

\* for page in pdf.pages: if page.extract_text(): text += page.extract_text()
\* The two calls of extract_text on a page return the same value; an exception
\* in either leaves text as it was.
TextPage ==
    /\ xpc = "pages"
    /\ pageIx <= Len(pdf_file.pages)
    /\ IF RaisesAt(pdf_file.tlFail, pageIx)
       THEN /\ xpc' = IF ExceptCatches(pdf_file.tlFail.kind) THEN "convert" ELSE "raised"
            /\ UNCHANGED <<text, pageIx>>
       ELSE /\ text' = IF Truthy(pdf_file.pages[pageIx])
                       THEN text \o pdf_file.pages[pageIx].str
                       ELSE text
            /\ pageIx' = pageIx + 1
            /\ xpc' = xpc
    /\ UNCHANGED <<pdf_file, imgIx, ocrCalled, ret>>
    /\ UNCHANGED <<analyzeVars, scriptVars>>

\* The end of the loop: the with block exits (pdf.close()).
TextClose ==
    /\ xpc = "pages"
    /\ pageIx > Len(pdf_file.pages)
    /\ IF RaisesAt(pdf_file.tlFail, Len(pdf_file.pages) + 1)
       THEN xpc' = IF ExceptCatches(pdf_file.tlFail.kind) THEN "convert" ELSE "raised"
       ELSE xpc' = "check"
    /\ UNCHANGED <<pdf_file, text, pageIx, imgIx, ocrCalled, ret>>
    /\ UNCHANGED <<analyzeVars, scriptVars>>

\* A version of TextCheck with no early return.
TextCheckNoReturn ==
    /\ xpc = "check"
    /\ xpc' = "convert"
    /\ UNCHANGED <<pdf_file, text, pageIx, imgIx, ocrCalled, ret>>
    /\ UNCHANGED <<analyzeVars, scriptVars>>

\* if text.strip(): return text
TextCheck ==
    /\ xpc = "check"
    /\ IF Strip(text) # <<>>
       THEN ret' = text /\ xpc' = "returned"
       ELSE ret' = ret /\ xpc' = "convert"
    /\ UNCHANGED <<pdf_file, text, pageIx, imgIx, ocrCalled>>
    /\ UNCHANGED <<analyzeVars, scriptVars>>

\* images = convert_from_path(pdf_path)
OcrConvert ==
    /\ xpc = "convert"
    /\ ocrCalled' = TRUE
    /\ IF RaisesAt(pdf_file.ocrFail, 0)
       THEN xpc' = IF ExceptCatches(pdf_file.ocrFail.kind) THEN "final" ELSE "raised"
       ELSE xpc' = "images"
    /\ UNCHANGED <<pdf_file, text, pageIx, imgIx, ret>>
    /\ UNCHANGED <<analyzeVars, scriptVars>>

\* A version of OcrImage that puts the recognized text in front.
OcrImagePrepend ==
    /\ xpc = "images"
    /\ imgIx <= Len(pdf_file.images)
    /\ IF RaisesAt(pdf_file.ocrFail, imgIx)
       THEN /\ xpc' = IF ExceptCatches(pdf_file.ocrFail.kind) THEN "final" ELSE "raised"
            /\ UNCHANGED <<text, imgIx>>
       ELSE /\ text' = pdf_file.images[imgIx] \o text
            /\ imgIx' = imgIx + 1
            /\ xpc' = xpc
    /\ UNCHANGED <<pdf_file, pageIx, ocrCalled, ret>>
    /\ UNCHANGED <<analyzeVars, scriptVars>>

\* for img in images: text += pytesseract.image_to_string(img)
OcrImage ==
    /\ xpc = "images"
    /\ imgIx <= Len(pdf_file.images)
    /\ IF RaisesAt(pdf_file.ocrFail, imgIx)
       THEN /\ xpc' = IF ExceptCatches(pdf_file.ocrFail.kind) THEN "final" ELSE "raised"
            /\ UNCHANGED <<text, imgIx>>
       ELSE /\ text' = text \o pdf_file.images[imgIx]
            /\ imgIx' = imgIx + 1
            /\ xpc' = xpc
    /\ UNCHANGED <<pdf_file, pageIx, ocrCalled, ret>>
    /\ UNCHANGED <<analyzeVars, scriptVars>>

\* The end of the OCR loop.
OcrDone ==
    /\ xpc = "images"
    /\ imgIx > Len(pdf_file.images)
    /\ xpc' = "final"
    /\ UNCHANGED <<pdf_file, text, pageIx, imgIx, ocrCalled, ret>>
    /\ UNCHANGED <<analyzeVars, scriptVars>>

\* return text.strip()
ReturnStripped ==
    /\ xpc = "final"
    /\ ret' = Strip(text)
    /\ xpc' = "returned"
    /\ UNCHANGED <<pdf_file, text, pageIx, imgIx, ocrCalled>>
    /\ UNCHANGED <<analyzeVars, scriptVars>>

\* The whole of extract_text_from_pdf as a function of what the libraries do.
\* TextLayer(p, i, acc): the loop over pdf.pages from page i on; the text
\* accumulated when the stage ends, normally or by an exception.
RECURSIVE TextLayer(_, _, _)
TextLayer(p, i, acc) ==
    IF i > Len(p.pages) \/ RaisesAt(p.tlFail, i) THEN acc
    ELSE TextLayer(p, i + 1, IF Truthy(p.pages[i]) THEN acc \o p.pages[i].str ELSE acc)

RECURSIVE OcrLoop(_, _, _)
OcrLoop(p, j, acc) ==
    IF j > Len(p.images) \/ RaisesAt(p.ocrFail, j) THEN acc
    ELSE OcrLoop(p, j + 1, acc \o p.images[j])

\* The first try block: the text accumulated, and whether line 23 returned it.
TextLayerStage(p) ==
    LET t1 == IF RaisesAt(p.tlFail, 0) THEN <<>> ELSE TextLayer(p, 1, <<>>)
    IN  [text |-> t1, returns |-> ~p.tlFail.fails /\ Strip(t1) # <<>>]

\* The second try block and the final return, from the text accumulated so far.
OcrStage(p, t1) == Strip(IF RaisesAt(p.ocrFail, 0) THEN t1 ELSE OcrLoop(p, 1, t1))

extract_text_from_pdf(p) ==
    LET s1 == TextLayerStage(p)
    IN  IF s1.returns THEN s1.text ELSE OcrStage(p, s1.text)

ExtractIdle == /\ pdf_file = EmptyPdf /\ xpc = "idle" /\ text = <<>> /\ pageIx = 1
               /\ imgIx = 1 /\ ocrCalled = FALSE /\ ret = <<>>

\* --------------------------------------------------------- analyze_resume
\* The prompt: the fixed parts of the f-string stand as one character each.
PromptHead == <<"<instructions and JSON structure>", "Resume:">>
PromptMid == <<"Job Description:">>
PromptTail == <<"<end>">>
NotProvided == <<"N", "o", "t", " ", "p", "r", "o", "v", "i", "d", "e", "d">>

\* A version of the slot that tests "is not None" instead of truthiness.
JobDescriptionSlotIfNotNone(jd) == IF ~jd.none THEN jd.str ELSE NotProvided

\* {job_description if job_description else "Not provided"}
JobDescriptionSlot(jd) == IF Truthy(jd) THEN jd.str ELSE NotProvided

Prompt(resume, jd) ==
    PromptHead \o resume \o PromptMid \o JobDescriptionSlot(jd) \o PromptTail

\* The reply is a sequence of tokens: the punctuation of JSON, whitespace, number
\* and string literals, null, and "w", a word of prose that is no JSON token.
NumTokens == {"85", "0", "100", "150"}
NumberValue(tok) ==
    CASE tok = "85" -> 85 [] tok = "0" -> 0 [] tok = "100" -> 100 [] tok = "150" -> 150
Keys == {"overall_match_score", "skill_match_score", "experience_match_score",
         "degree_match", "requirement_coverage", "met", "missing", "strengths",
         "weaknesses", "final_decision", "explanation"}
\* The string literals: a token of this set is the literal of that string.
StrTokens == Keys \cup {"match", "partial", "no match", "maybe", "Shortlist",
                        "Do Not Shortlist", "some text"}

\* Parsed JSON values, tagged with their Python type.
JNull == [kind |-> "NoneType", val |-> "None"]
JNum(n) == [kind |-> "int", val |-> n]
JStr(s) == [kind |-> "str", val |-> s]
JList(items) == [kind |-> "list", val |-> items]
JDict(members) == [kind |-> "dict", val |-> members]

ParseFail == [ok |-> FALSE, val |-> JNull, next |-> 0]
Parsed(v, n) == [ok |-> TRUE, val |-> v, next |-> n]

RECURSIVE SkipWs(_, _)
SkipWs(t, i) == IF i <= Len(t) /\ t[i] \in Whitespace THEN SkipWs(t, i + 1) ELSE i

Tok(t, i) == IF i <= Len(t) THEN t[i] ELSE "<eof>"

\* json.loads: a recursive-descent parse of one JSON value.
RECURSIVE ParseValue(_, _)
RECURSIVE ParseElements(_, _, _)
RECURSIVE ParseMembers(_, _, _)

\* After "[" or a ",": the elements of an array, acc those parsed so far.
ParseElements(t, i, acc) ==
    LET r == ParseValue(t, i) IN
    IF ~r.ok THEN ParseFail
    ELSE LET j == SkipWs(t, r.next) IN
         CASE Tok(t, j) = "," -> ParseElements(t, j + 1, Append(acc, r.val))
           [] Tok(t, j) = "]" -> Parsed(JList(Append(acc, r.val)), j + 1)
           [] OTHER -> ParseFail

\* After "{" or a ",": the members of an object; a repeated key keeps the last.
ParseMembers(t, i, acc) ==
    LET k == SkipWs(t, i) IN
    IF Tok(t, k) \notin StrTokens THEN ParseFail
    ELSE LET c == SkipWs(t, k + 1) IN
         IF Tok(t, c) # ":" THEN ParseFail
         ELSE LET r == ParseValue(t, c + 1) IN
              IF ~r.ok THEN ParseFail
              ELSE LET j == SkipWs(t, r.next)
                       acc2 == (t[k] :> r.val) @@ acc
                   IN  CASE Tok(t, j) = "," -> ParseMembers(t, j + 1, acc2)
                         [] Tok(t, j) = "}" -> Parsed(JDict(acc2), j + 1)
                         [] OTHER -> ParseFail

ParseValue(t, i) ==
    LET j == SkipWs(t, i) IN
    CASE Tok(t, j) \in NumTokens -> Parsed(JNum(NumberValue(t[j])), j + 1)
      [] Tok(t, j) \in StrTokens -> Parsed(JStr(t[j]), j + 1)
      [] Tok(t, j) = "null" -> Parsed(JNull, j + 1)
      [] Tok(t, j) = "[" ->
            IF Tok(t, SkipWs(t, j + 1)) = "]"
            THEN Parsed(JList(<<>>), SkipWs(t, j + 1) + 1)
            ELSE ParseElements(t, j + 1, <<>>)
      [] Tok(t, j) = "{" ->
            IF Tok(t, SkipWs(t, j + 1)) = "}"
            THEN Parsed(JDict(<<>>), SkipWs(t, j + 1) + 1)
            ELSE ParseMembers(t, j + 1, <<>>)
      [] OTHER -> ParseFail

\* json.loads(s): one value, and nothing but whitespace after it.
JsonLoads(t) ==
    LET r == ParseValue(t, 1) IN
    IF r.ok /\ SkipWs(t, r.next) > Len(t) THEN r ELSE ParseFail

\* re.search(r"\{[\s\S]*\}", s): from the first "{" to the last "}" after it.
Positions(t, c) == {i \in 1..Len(t) : t[i] = c}
Min(S) == CHOOSE x \in S : \A y \in S : x <= y
Max(S) == CHOOSE x \in S : \A y \in S : x >= y
ReSearch(t) ==
    LET open == Positions(t, "{")
        close == Positions(t, "}")
    IN  IF open # {} /\ \E c \in close : c > Min(open)
        THEN [found |-> TRUE, group |-> SubSeq(t, Min(open), Max(close))]
        ELSE [found |-> FALSE, group |-> <<>>]

\* Replies of the model: prose or nothing before and after a body.
MatchResultJson(o, s, e, d, f) ==
    <<"{", "overall_match_score", ":", o, ",", "skill_match_score", ":", s, ",",
      "experience_match_score", ":", e, ",", "degree_match", ":", d, ",",
      "requirement_coverage", ":", "{", "met", ":", "[", "some text", "]", ",",
      "missing", ":", "[", "]", "}", ",", "strengths", ":", "[", "some text", "]", ",",
      "weaknesses", ":", "[", "]", ",", "final_decision", ":", f, ",",
      "explanation", ":", "some text", "}">>

ValidBodies ==
    {MatchResultJson("85", "100", "0", "match", "Shortlist"),
     MatchResultJson("0", "85", "85", "no match", "Do Not Shortlist")}
MalformedBodies ==
    {MatchResultJson("150", "85", "85", "match", "Shortlist"),
     MatchResultJson("85", "85", "85", "maybe", "Shortlist"),
     MatchResultJson("85", "some text", "85", "partial", "Shortlist"),
     <<"{", "}">>,
     <<"{", "w", "}">>}
OtherBodies == {<<>>, <<"w">>, <<"85">>, <<"some text">>, <<"null">>,
                <<"[", "85", "]">>, <<"[", "w", "]">>}
Bodies == ValidBodies \cup MalformedBodies \cup OtherBodies
Prefixes == {<<>>, <<" ">>, <<"w", " ">>, <<"w", "{", "w", "}", " ">>, <<"w", "}", " ">>}
Suffixes == {<<>>, <<" ">>, <<" ", "w">>, <<" ", "{", "w", "}">>, <<" ", "w", "{">>,
             <<" ">> \o MatchResultJson("85", "85", "85", "partial", "Shortlist")}

ResumeTexts == {<<>>, <<"c", "v">>}
JobDescriptions == {PyNone, PyStr(<<>>), PyStr(NotProvided), PyStr(<<" ">>),
                    PyStr(<<"d", "e", "v">>)}

NoParts == [prefix |-> <<>>, body |-> <<>>, suffix |-> <<>>]

AnalyzeIdle == /\ apc = "idle" /\ resume_text = <<>> /\ job_description = PyNone
               /\ prompt = <<>> /\ reply = <<>> /\ parts = NoParts /\ result = JNull
               /\ outcome = "none"

\* prompt = f"""..."""
BuildPrompt ==
    /\ apc = "start"
    /\ prompt' = Prompt(resume_text, job_description)
    /\ apc' = "generate"
    /\ UNCHANGED <<resume_text, job_description, reply, parts, result, outcome>>
    /\ UNCHANGED <<extractVars, scriptVars>>

\* response = model.generate_content(prompt): the service answers with some text.
GenerateContent ==
    /\ apc = "generate"
    /\ \E p \in Prefixes, b \in Bodies, x \in Suffixes :
          /\ reply' = p \o b \o x
          /\ parts' = [prefix |-> p, body |-> b, suffix |-> x]
    /\ apc' = "parse"
    /\ UNCHANGED <<resume_text, job_description, prompt, result, outcome>>
    /\ UNCHANGED <<extractVars, scriptVars>>

\* response = model.generate_content(prompt): the call raises, outside any try.
GenerateContentRaises ==
    /\ apc = "generate"
    /\ outcome' = "ServiceError"
    /\ apc' = "done"
    /\ UNCHANGED <<resume_text, job_description, prompt, reply, parts, result>>
    /\ UNCHANGED <<extractVars, scriptVars>>

\* try: result = json.loads(response.text), and return result
ParseReply ==
    /\ apc = "parse"
    /\ LET r == JsonLoads(reply) IN
       IF r.ok
       THEN result' = r.val /\ outcome' = "returned" /\ apc' = "done"
       ELSE result' = result /\ outcome' = outcome /\ apc' = "search"
    /\ UNCHANGED <<resume_text, job_description, prompt, reply, parts>>
    /\ UNCHANGED <<extractVars, scriptVars>>

\* except: json_match = re.search(...); json.loads(json_match.group()) or raise.
\* json.JSONDecodeError is a subclass of ValueError.
SearchJson ==
    /\ apc = "search"
    /\ LET m == ReSearch(reply) IN
       IF m.found
       THEN LET r == JsonLoads(m.group) IN
            IF r.ok
            THEN result' = r.val /\ outcome' = "returned"
            ELSE result' = result /\ outcome' = "JSONDecodeError"
       ELSE result' = result /\ outcome' = "ValueError"
    /\ apc' = "done"
    /\ UNCHANGED <<resume_text, job_description, prompt, reply, parts>>
    /\ UNCHANGED <<extractVars, scriptVars>>

\* ------------------------------------------------------- the script body
\* Streamlit runs the script once per interaction of a session, each session in
\* a thread of the one process.
Sessions == {1, 2}

\* A version of UploadPath with a path of the session's own.
UploadPathPerSession(s) == IF s = 1 THEN "tmp_1.pdf" ELSE "tmp_2.pdf"

\* open("uploaded_resume.pdf", "wb") and extract_text_from_pdf("uploaded_resume.pdf")
UploadPath(s) == "uploaded_resume.pdf"

Paths == {"uploaded_resume.pdf", "tmp_1.pdf", "tmp_2.pdf"}

\* The files users upload: one with a text layer, one scanned.
TextPdf == [pages |-> <<PyStr(<<"a">>)>>, tlFail |-> NoFailure,
            images |-> <<<<"x">>>>, ocrFail |-> NoFailure]
ScannedPdf == [pages |-> <<PyNone>>, tlFail |-> NoFailure,
               images |-> <<<<"y">>>>, ocrFail |-> NoFailure]
Uploads == {TextPdf, ScannedPdf}
\* A file of no bytes (just opened with "wb", or never written): neither
\* pdfplumber.open nor convert_from_path can read it.
EmptyFile == [pages |-> <<>>, tlFail |-> [fails |-> TRUE, at |-> 0, kind |-> "Exception"],
              images |-> <<>>, ocrFail |-> [fails |-> TRUE, at |-> 0, kind |-> "Exception"]]

ScriptIdle == /\ spc = [s \in Sessions |-> "idle"]
              /\ upload = [s \in Sessions |-> EmptyFile]
              /\ disk = [p \in Paths |-> EmptyFile]
              /\ session_text = [s \in Sessions |-> <<>>]
              /\ analyzed = [s \in Sessions |-> PyNone]

\* uploaded_file = st.file_uploader(...); if uploaded_file: open(path, "wb")
\* truncates the file.
OpenForWrite(s) ==
    /\ spc[s] = "idle"
    /\ \E d \in Uploads : upload' = [upload EXCEPT ![s] = d]
    /\ disk' = [disk EXCEPT ![UploadPath(s)] = EmptyFile]
    /\ analyzed' = [analyzed EXCEPT ![s] = PyNone]
    /\ spc' = [spc EXCEPT ![s] = "opened"]
    /\ UNCHANGED session_text
    /\ UNCHANGED <<extractVars, analyzeVars>>

\* f.write(uploaded_file.getbuffer()), and the with block closes the file.
WriteUpload(s) ==
    /\ spc[s] = "opened"
    /\ disk' = [disk EXCEPT ![UploadPath(s)] = upload[s]]
    /\ spc' = [spc EXCEPT ![s] = "written"]
    /\ UNCHANGED <<upload, session_text, analyzed>>
    /\ UNCHANGED <<extractVars, analyzeVars>>

\* resume_text = extract_text_from_pdf("uploaded_resume.pdf"): pdfplumber reads
\* the file as it is now.
ExtractTextLayer(s) ==
    /\ spc[s] = "written"
    /\ LET s1 == TextLayerStage(disk[UploadPath(s)]) IN
          /\ session_text' = [session_text EXCEPT ![s] = s1.text]
          /\ spc' = [spc EXCEPT ![s] = IF s1.returns THEN "extracted" ELSE "ocr"]
    /\ UNCHANGED <<upload, disk, analyzed>>
    /\ UNCHANGED <<extractVars, analyzeVars>>

\* The OCR fallback of the same call: convert_from_path reads the file again, as
\* it is by then.
ExtractOcr(s) ==
    /\ spc[s] = "ocr"
    /\ session_text' = [session_text EXCEPT ![s] = OcrStage(disk[UploadPath(s)], session_text[s])]
    /\ spc' = [spc EXCEPT ![s] = "extracted"]
    /\ UNCHANGED <<upload, disk, analyzed>>
    /\ UNCHANGED <<extractVars, analyzeVars>>

\* if st.button("Analyze Resume"): result = analyze_resume(resume_text, ...)
AnalyzeClicked(s) ==
    /\ spc[s] = "extracted"
    /\ analyzed' = [analyzed EXCEPT ![s] = PyStr(session_text[s])]
    /\ spc' = [spc EXCEPT ![s] = "idle"]
    /\ UNCHANGED <<upload, disk, session_text>>
    /\ UNCHANGED <<extractVars, analyzeVars>>

\* The button was not clicked in this run: the script ends.
RunEnds(s) ==
    /\ spc[s] = "extracted"
    /\ spc' = [spc EXCEPT ![s] = "idle"]
    /\ UNCHANGED <<upload, disk, session_text, analyzed>>
    /\ UNCHANGED <<extractVars, analyzeVars>>

\* --------------------------------------------------------- specifications
\* One call of extract_text_from_pdf, for every file.
InitExtract == /\ pdf_file \in PdfFiles /\ InitExtractVars /\ AnalyzeIdle /\ ScriptIdle
NextExtract ==
    \/ TextOpen
    \/ TextPage
    \/ TextClose
    \/ TextCheck
    \/ OcrConvert
    \/ OcrImage
    \/ OcrDone
    \/ ReturnStripped
SpecExtract == InitExtract /\ [][NextExtract]_vars

\* One call of analyze_resume, for every resume text, job description and reply.
InitAnalyze ==
    /\ apc = "start"
    /\ resume_text \in ResumeTexts
    /\ job_description \in JobDescriptions
    /\ prompt = <<>> /\ reply = <<>> /\ parts = NoParts /\ result = JNull
    /\ outcome = "none"
    /\ ExtractIdle /\ ScriptIdle
NextAnalyze ==
    \/ BuildPrompt
    \/ GenerateContent
    \/ GenerateContentRaises
    \/ ParseReply
    \/ SearchJson
SpecAnalyze == InitAnalyze /\ [][NextAnalyze]_vars

\* The script runs of two sessions, interleaved.
InitScript == ScriptIdle /\ ExtractIdle /\ AnalyzeIdle
NextScript ==
    \E s \in Sessions :
        \/ OpenForWrite(s)
        \/ WriteUpload(s)
        \/ ExtractTextLayer(s)
        \/ ExtractOcr(s)
        \/ AnalyzeClicked(s)
        \/ RunEnds(s)
SpecScript == InitScript /\ [][NextScript]_vars

\* The step relation of extract_text_from_pdf agrees with its summary.
ExtractAgrees == xpc = "returned" => ret = extract_text_from_pdf(pdf_file)

\* -------------------------------------------------------------- the claims
\* What the claims speak of, stated from the inputs alone.
RECURSIVE ConcatPages(_)
ConcatPages(ps) ==
    IF ps = <<>> THEN <<>>
    ELSE (IF Head(ps).none THEN <<>> ELSE Head(ps).str) \o ConcatPages(Tail(ps))

RECURSIVE ConcatImages(_)
ConcatImages(is) == IF is = <<>> THEN <<>> ELSE Head(is) \o ConcatImages(Tail(is))

\* The items a stage read before it failed (all of them when it did not).
ReadBefore(items, f) == SubSeq(items, 1, IF f.fails THEN f.at - 1 ELSE Len(items))

TextLayerYield == ConcatPages(ReadBefore(pdf_file.pages, pdf_file.tlFail))
OcrYield == ConcatImages(ReadBefore(pdf_file.images, pdf_file.ocrFail))
Blank(s) == Strip(s) = <<>>
HasNonBlankPage ==
    \E i \in 1..Len(pdf_file.pages) :
        ~pdf_file.pages[i].none /\ ~Blank(pdf_file.pages[i].str)
AllPagesEmpty == \A i \in 1..Len(pdf_file.pages) : ~Truthy(pdf_file.pages[i])
Renderable == ~pdf_file.ocrFail.fails /\ Len(pdf_file.images) > 0

\* C1: extract_text_from_pdf never raises, whatever the libraries raise and
\* wherever they raise it, and when neither stage yields any text it returns
\* the empty string.
C1_NeverRaises ==
    /\ xpc # "raised"
    /\ xpc = "returned" /\ Blank(TextLayerYield) /\ Blank(OcrYield) => ret = <<>>

\* Both stages fail between two pages, with an exception that is no Exception,
\* after reading only whitespace, and "" is returned.
C1_Witness ==
    /\ xpc = "returned"
    /\ RaisesAt(pdf_file.tlFail, 2) /\ pdf_file.tlFail.kind = "KeyboardInterrupt"
    /\ RaisesAt(pdf_file.ocrFail, 2) /\ pdf_file.ocrFail.kind = "KeyboardInterrupt"
    /\ pdf_file.pages[1] = PyStr(<<" ">>) /\ pdf_file.images[1] = <<" ">>
    /\ ret = <<>>

\* C2, as stated: a file with a page of non-blank text gets the text of its
\* pages back, and neither convert_from_path nor image_to_string is called.
C2_Original ==
    xpc = "returned" /\ HasNonBlankPage
        => ret = ConcatPages(pdf_file.pages) /\ ~ocrCalled

\* C2, amended: when the text-layer stage raises nowhere and the text of the
\* pages together is non-blank, OCR is not called at any point of the call and
\* the text of the pages is returned as it is, untrimmed.
C2_TextLayerSkipsOcr ==
    ~pdf_file.tlFail.fails /\ ~Blank(ConcatPages(pdf_file.pages))
        => /\ ~ocrCalled
           /\ xpc \notin {"convert", "images", "final"}
           /\ xpc = "returned" => ret = ConcatPages(pdf_file.pages)

\* A file with a text layer and with pages OCR could read: the text layer is
\* returned, leading whitespace included, and OCR was not called.
C2_Witness ==
    /\ xpc = "returned"
    /\ ~pdf_file.tlFail.fails /\ ~pdf_file.ocrFail.fails
    /\ pdf_file.pages = <<PyStr(<<" ">>), PyStr(<<"a">>)>>
    /\ Len(pdf_file.images) = 2
    /\ ret = <<" ", "a">>
    /\ ~ocrCalled

\* C7, as stated: with no text layer and renderable pages, the concatenation of
\* the text recognized on the images, in order, is returned.
C7_Original ==
    xpc = "returned" /\ AllPagesEmpty /\ Renderable
        => ret = ConcatImages(pdf_file.images)

\* C7, amended: it is that concatenation with leading and trailing whitespace
\* removed that is returned.
C7_OcrTextTrimmed ==
    xpc = "returned" /\ AllPagesEmpty /\ Renderable
        => ret = Strip(ConcatImages(pdf_file.images))

\* A scanned file of two images: their text comes back in page order.
C7_Witness ==
    /\ xpc = "returned"
    /\ Len(pdf_file.pages) = 2 /\ AllPagesEmpty
    /\ ~pdf_file.ocrFail.fails
    /\ pdf_file.images = << <<"x">>, <<"y">> >>
    /\ ret = <<"x", "y">>

\* C8: the value returned is the accumulated text, trimmed, whichever stage
\* produced it.
C8_AlwaysTrimmed == xpc = "returned" => ret = Strip(text)

\* C9: when the text-layer stage fails, what it accumulated is discarded, and
\* the value returned holds OCR text only.
C9_PartialDiscarded ==
    xpc = "returned" /\ pdf_file.tlFail.fails => ret = Strip(OcrYield)

\* No stretch of the reply is a JSON object.
ContainsNoJsonObject(t) ==
    \A i \in Positions(t, "{"), j \in Positions(t, "}") :
        i < j => ~JsonLoads(SubSeq(t, i, j)).ok

Score(v) == v.kind = "int" /\ v.val \in 0..100
OneOf(v, S) == v.kind = "str" /\ v.val \in S
ValidMatchResult(v) ==
    /\ v.kind = "dict"
    /\ {"overall_match_score", "skill_match_score", "experience_match_score",
        "degree_match", "final_decision"} \subseteq DOMAIN v.val
    /\ Score(v.val["overall_match_score"])
    /\ Score(v.val["skill_match_score"])
    /\ Score(v.val["experience_match_score"])
    /\ OneOf(v.val["degree_match"], {"match", "partial", "no match"})
    /\ OneOf(v.val["final_decision"], {"Shortlist", "Do Not Shortlist"})

Replied == apc = "done" /\ outcome # "ServiceError"

\* C3: a reply that contains no JSON object, a bare number, string, array or
\* null included, makes analyze_resume fail with a ValueError.
C3_NoObjectFails ==
    Replied /\ ContainsNoJsonObject(reply)
        => outcome \in {"ValueError", "JSONDecodeError"}

\* C4: a valid MatchResult object parses to the same record with any prose
\* before and after it as it does bare.
C4_ProseIgnored ==
    Replied /\ parts.body \in ValidBodies
        => outcome = "returned" /\ result = JsonLoads(parts.body).val

\* C5: whatever analyze_resume returns satisfies the invariants of MatchResult.
C5_ResultValid == outcome = "returned" => ValidMatchResult(result)

\* C6: with the job description omitted (None or ""), the prompt is the one
\* built for the job description "Not provided".
C6_SentinelSamePrompt ==
    apc # "start" /\ (job_description = PyNone \/ job_description = PyStr(<<>>))
        => prompt = Prompt(resume_text, PyStr(NotProvided))

\* The prompt of a resume with the job description "", as the text area gives it.
C6_Witness ==
    /\ apc = "generate"
    /\ job_description = PyStr(<<>>)
    /\ resume_text = <<"c", "v">>
    /\ prompt = PromptHead \o <<"c", "v">> \o PromptMid \o NotProvided \o PromptTail

\* C10: every session writes its upload to uploaded_resume.pdf and extracts
\* from uploaded_resume.pdf, whatever another session has put there since: both
\* reads of an extraction take the file of that one path as it is at that step.
C10_OnePathForAll ==
    [][\A s \in Sessions :
          /\ spc[s] = "opened" /\ spc'[s] = "written"
                => disk'["uploaded_resume.pdf"] = upload[s]
          /\ spc[s] = "written" /\ spc'[s] # "written"
                => session_text'[s] = TextLayerStage(disk["uploaded_resume.pdf"]).text
          /\ spc[s] = "ocr" /\ spc'[s] = "extracted"
                => session_text'[s] = OcrStage(disk["uploaded_resume.pdf"], session_text[s])
      ]_vars

\* The race: a session has analyzed the text of the other session's upload,
\* written between its own write and its own extraction, not that of its own.
C10_Witness ==
    \E s \in Sessions, t \in Sessions :
        /\ s # t
        /\ spc[s] = "idle"
        /\ disk["uploaded_resume.pdf"] = upload[t]
        /\ analyzed[s] = PyStr(extract_text_from_pdf(upload[t]))
        /\ analyzed[s] # PyStr(extract_text_from_pdf(upload[s]))

====
